---- MODULE Spec2Model ----
(***************************************************************************)
(* A model of src/model.py: the pipeline builder (build_estimator and the  *)
(* estimator registry) and the custom steps CategoricalEncoder,            *)
(* AverageChargesPerRegionRegressor, AverageChargesPerRegionExtractor,     *)
(* Discretizer and BaggRegressor.                                          *)
(*                                                                         *)
(* Python objects are records with a field `attrs`, the set of attribute   *)
(* names that have been assigned: reading an attribute that is not in      *)
(* `attrs` raises AttributeError, as in Python.  A call's outcome is a     *)
(* record whose field `exc` names the Python exception that the call       *)
(* raised ("" when it returned).                                           *)
(***************************************************************************)
EXTENDS Integers, Sequences, FiniteSets, TLC

VARIABLES
    config,     \* the argument of the last build_estimator call
    model,      \* what the last build_estimator call returned (a Pipeline)
    inst,       \* a step instance constructed on its own
    call,       \* the last call: operation, arguments, exception, result
    train,      \* group-average steps: the arguments of the last fit that returned
    earlier     \* group-average steps: the region keys of the fits before it

vars == <<config, model, inst, call, train, earlier>>

----------------------------------------------------------------------------
(* Bounds of the model.                                                    *)

MaxConfigLen == 2
MaxFitRows == 3
MaxRows == 2
MaxFits == 2

----------------------------------------------------------------------------
(* Cell values.  A cell is a string or a number; numbers are exact         *)
(* rationals n/d in lowest terms with d > 0, strings have d = 0, and the   *)
(* float NaN is the cell with s = "nan".                                   *)

Str(x) == [s |-> x, n |-> 0, d |-> 0]
Num(i) == [s |-> "", n |-> i, d |-> 1]
NaN == [s |-> "nan", n |-> 0, d |-> 1]
IsStr(c) == c.d = 0
IsNum(c) == c.d > 0 /\ c.s = ""

RECURSIVE GCD(_, _)
GCD(a, b) == IF b = 0 THEN a ELSE GCD(b, a % b)

Abs(i) == IF i < 0 THEN 0 - i ELSE i

\* the number a/b (b > 0) as a cell
Ratio(a, b) == LET g == GCD(Abs(a), b) IN [s |-> "", n |-> a \div g, d |-> b \div g]

RECURSIVE SumSeq(_)
SumSeq(q) == IF q = <<>> THEN 0 ELSE Head(q) + SumSeq(Tail(q))

Range(q) == {q[i] : i \in 1..Len(q)}

IndexOf(q, x) == IF \E i \in 1..Len(q) : q[i] = x
                 THEN CHOOSE i \in 1..Len(q) : q[i] = x /\ \A j \in 1..(i - 1) : q[j] # x
                 ELSE 0

\* numpy / pandas mean of a numeric vector: sum / count, NaN when it is empty
Mean(q) == IF Len(q) = 0 THEN NaN ELSE Ratio(SumSeq(q), Len(q))

----------------------------------------------------------------------------
(* Tabular data.  A pandas DataFrame has column labels and rows of cells   *)
(* (rows[r][c] is the cell of row r in the column at position c); a numpy  *)
(* array has rows of cells and no labels.                                  *)

DataFrame(cols, rows) == [kind |-> "DataFrame", columns |-> cols, rows |-> rows]
NdArray(rows) == [kind |-> "ndarray", columns |-> <<>>, rows |-> rows]
NoData == [kind |-> "None", columns |-> <<>>, rows |-> <<>>]

\* X[name]: the cells of the column labelled name (the caller checks the label)
Column(X, name) == [r \in 1..Len(X.rows) |-> X.rows[r][IndexOf(X.columns, name)]]

\* X.shape[1]
NCols(X) == IF X.kind = "DataFrame" THEN Len(X.columns)
            ELSE IF X.rows = <<>> THEN 0 ELSE Len(X.rows[1])

----------------------------------------------------------------------------
(* The Column Registry (module `data`, imported by src/model.py): the      *)
(* binary and categorical column names and the ordered values of each.     *)

get_binary_column_names == <<"smoker">>
get_categorical_column_names == <<"region">>
get_categorical_variables_values_mapping ==
    [k \in {"smoker", "region"} |->
        IF k = "smoker" THEN <<"no", "yes">> ELSE <<"A", "B", "C">>]

----------------------------------------------------------------------------
(* Python objects.                                                         *)

\* a sklearn ColumnTransformer with one transformer named "encoder"
NoTransformer ==
    [encoder |-> "None", columns |-> <<>>, categories |-> <<>>, n_bins |-> <<>>,
     strategy |-> "", remainder |-> "drop", fitted |-> FALSE,
     feature_names_in_ |-> <<>>, remainder_columns |-> <<>>, bin_edges_ |-> <<>>]

\* an object of class cls on which no attribute has been assigned
NewObject(cls) ==
    [cls |-> cls, attrs |-> {},
     one_hot |-> FALSE, force_dense_array |-> FALSE,
     categorical_column_names |-> <<>>, categories |-> <<>>,
     bins_per_column |-> <<>>, strategy |-> "",
     n_features_in_ |-> 0, _column_transformer |-> NoTransformer,
     means_ |-> <<>>, global_mean_ |-> NaN,
     original_column_order_ |-> <<>>, columns_ |-> <<>>, new_column_order_ |-> <<>>,
     _model |-> [n_features_in_ |-> 0]]

NoObject == NewObject("None")

\* keyword arguments (**params): `keys` are the keywords given, the other
\* fields their values (a field whose keyword is not in `keys` is not read)
Params(keys, one_hot, bins_per_column, strategy) ==
    [keys |-> keys, one_hot |-> one_hot, bins_per_column |-> bins_per_column,
     strategy |-> strategy]

\* the keywords the constructor of a class requires and accepts
RequiredKeywords(cls) ==
    IF cls = "Discretizer" THEN {"bins_per_column", "strategy"} ELSE {}

AcceptedKeywords(cls) ==
    CASE cls = "CategoricalEncoder" -> {"one_hot", "force_dense_array"}
      [] cls = "Discretizer" -> {"bins_per_column", "strategy"}
      [] cls = "LinearRegression" -> {"fit_intercept", "copy_X", "n_jobs", "positive"}
      [] cls = "StandardScaler" -> {"copy", "with_mean", "with_std"}
      [] cls = "OneHotEncoder" -> {"categories", "drop", "sparse", "dtype", "handle_unknown"}
      [] cls = "LogisticRegression" -> {"penalty", "C", "fit_intercept", "max_iter"}
      [] OTHER -> {}

CategoricalEncoder_init(params) ==
    LET names == get_binary_column_names \o get_categorical_column_names
        mapping == get_categorical_variables_values_mapping
    IN [NewObject("CategoricalEncoder") EXCEPT
           !.attrs = {"one_hot", "force_dense_array", "categorical_column_names",
                      "categories"},
           !.one_hot = IF "one_hot" \in params.keys THEN params.one_hot ELSE FALSE,
           !.force_dense_array = FALSE,
           !.categorical_column_names = names,
           !.categories = [i \in 1..Len(names) |-> mapping[names[i]]]]

Discretizer_init(params) ==
    [NewObject("Discretizer") EXCEPT
        !.attrs = {"bins_per_column", "strategy"},
        !.bins_per_column = params.bins_per_column,
        !.strategy = params.strategy]

\* cls(**params): the new object, or TypeError when the keywords do not match
\* the constructor's signature
Construct(cls, params) ==
    IF ~(RequiredKeywords(cls) \subseteq params.keys /\
         params.keys \subseteq AcceptedKeywords(cls))
    THEN [exc |-> "TypeError", obj |-> NoObject]
    ELSE [exc |-> "",
          obj |-> CASE cls = "CategoricalEncoder" -> CategoricalEncoder_init(params)
                    [] cls = "Discretizer" -> Discretizer_init(params)
                    [] OTHER -> [NewObject(cls) EXCEPT !.attrs = params.keys]]

----------------------------------------------------------------------------
(* The Estimator Registry and the Pipeline Builder.                        *)

get_estimator_mapping ==
    [name \in {"average-charges-extractor", "average-charges-regressor",
               "linear-regressor", "logistic-regressor", "categorical-encoder",
               "one-hot-encoder", "standard-scaler", "bagging", "discretizer"} |->
        CASE name = "average-charges-extractor" -> "AverageChargesPerRegionExtractor"
          [] name = "average-charges-regressor" -> "AverageChargesPerRegionRegressor"
          [] name = "linear-regressor" -> "LinearRegression"
          [] name = "logistic-regressor" -> "LogisticRegression"
          [] name = "categorical-encoder" -> "CategoricalEncoder"
          [] name = "one-hot-encoder" -> "OneHotEncoder"
          [] name = "standard-scaler" -> "StandardScaler"
          [] name = "bagging" -> "BaggRegressor"
          [] name = "discretizer" -> "Discretizer"]

\* Pipeline(steps): the pipeline object holds the (name, estimator) pairs
Pipeline(steps) == [built |-> TRUE, steps |-> steps]
NoPipeline == [built |-> FALSE, steps |-> <<>>]

\* the body of the loop of build_estimator from entry i on, `steps` holding
\* the pairs appended so far
RECURSIVE build_loop(_, _, _)
build_loop(cfg, i, steps) ==
    IF i > Len(cfg) THEN [exc |-> "", model |-> Pipeline(steps)]
    ELSE LET name == cfg[i].name
             params == cfg[i].params
         IN IF name \notin DOMAIN get_estimator_mapping
            THEN [exc |-> "KeyError", model |-> NoPipeline]
            ELSE LET estimator == Construct(get_estimator_mapping[name], params)
                 IN IF estimator.exc # ""
                    THEN [exc |-> estimator.exc, model |-> NoPipeline]
                    ELSE build_loop(cfg, i + 1,
                                    Append(steps, [name |-> name, estimator |-> estimator.obj]))

\* a builder that appends nothing for a name the registry does not have
RECURSIVE build_loop_skipping(_, _, _)
build_loop_skipping(cfg, i, steps) ==
    IF i > Len(cfg) THEN [exc |-> "", model |-> Pipeline(steps)]
    ELSE IF cfg[i].name \notin DOMAIN get_estimator_mapping
    THEN build_loop_skipping(cfg, i + 1, steps)
    ELSE LET estimator == Construct(get_estimator_mapping[cfg[i].name], cfg[i].params)
         IN IF estimator.exc # "" THEN [exc |-> estimator.exc, model |-> NoPipeline]
            ELSE build_loop_skipping(cfg, i + 1,
                     Append(steps, [name |-> cfg[i].name, estimator |-> estimator.obj]))

build_estimator_skipping(cfg) == build_loop_skipping(cfg, 1, <<>>)

\* a builder that puts each new step in front of the ones before it
build_estimator_prepending(cfg) ==
    LET r == build_loop(cfg, 1, <<>>)
    IN [r EXCEPT !.model.steps = [i \in 1..Len(@) |-> @[Len(@) + 1 - i]]]

build_estimator(cfg) == build_loop(cfg, 1, <<>>)

----------------------------------------------------------------------------
(* What a method call gives: the object after the call, the exception the  *)
(* call raised ("" when it returned), the value it returned, and `arg`,    *)
(* the cells the caller's X holds after the call.                          *)

Return(self, X, out) == [exc |-> "", self |-> self, arg |-> X, out |-> out]
Raise(self, X, exc) == [exc |-> exc, self |-> self, arg |-> X, out |-> NoData]

\* the exception of X[name], "" when X is a DataFrame with a column `name`
GetItemError(X, name) ==
    IF X.kind # "DataFrame" THEN "IndexError"
    ELSE IF name \notin Range(X.columns) THEN "KeyError"
    ELSE ""

----------------------------------------------------------------------------
(* AverageChargesPerRegionRegressor and AverageChargesPerRegionExtractor.  *)

\* the cells of y in the rows whose region is key
GroupTargets(region, y, key) ==
    LET RECURSIVE Sel(_)
        Sel(i) == IF i > Len(y) THEN <<>>
                  ELSE IF region[i] = key THEN <<y[i]>> \o Sel(i + 1) ELSE Sel(i + 1)
    IN Sel(1)

\* df.groupby("region").mean().to_dict()["y"]
GroupMeans(region, y) ==
    [key \in Range(region) |-> Mean(GroupTargets(region, y, key))]

\* a fit whose fallback is the mean of the group means
GroupAverage_fit_mean_of_means(self, X, y) ==
    IF GetItemError(X, "region") # "" THEN Raise(self, X, GetItemError(X, "region"))
    ELSE LET means == GroupMeans(Column(X, "region"), y)
             RECURSIVE Total(_)
             Total(S) == IF S = {} THEN [n |-> 0, d |-> 1]
                         ELSE LET k == CHOOSE k \in S : TRUE
                                  t == Total(S \ {k})
                              IN [n |-> t.n * means[k].d + means[k].n * t.d,
                                  d |-> t.d * means[k].d]
             total == Total(DOMAIN means)
         IN Return([self EXCEPT !.attrs = @ \cup {"means_", "global_mean_"},
                                !.means_ = means,
                                !.global_mean_ =
                                    IF DOMAIN means = {} THEN NaN
                                    ELSE Ratio(total.n, total.d * Cardinality(DOMAIN means))],
                   X, NoData)

\* a fit that updates the dict of means it already has
GroupAverage_fit_updating(self, X, y) ==
    IF GetItemError(X, "region") # "" THEN Raise(self, X, GetItemError(X, "region"))
    ELSE LET means == GroupMeans(Column(X, "region"), y)
             old == IF "means_" \in self.attrs THEN DOMAIN self.means_ ELSE {}
         IN Return([self EXCEPT !.attrs = @ \cup {"means_", "global_mean_"},
                                !.means_ = [k \in old \cup DOMAIN means |->
                                               IF k \in DOMAIN means THEN means[k]
                                               ELSE self.means_[k]],
                                !.global_mean_ = Mean(y)],
                   X, NoData)

\* fit of both classes (lines 86-91 and 107-111)
GroupAverage_fit(self, X, y) ==
    IF GetItemError(X, "region") # "" THEN Raise(self, X, GetItemError(X, "region"))
    ELSE Return([self EXCEPT !.attrs = @ \cup {"means_", "global_mean_"},
                             !.means_ = GroupMeans(Column(X, "region"), y),
                             !.global_mean_ = Mean(y)],
                X, NoData)

\* get_average(x), called with both attributes assigned
get_average(self, x) ==
    IF x \in DOMAIN self.means_ THEN self.means_[x] ELSE self.global_mean_

\* X["region"].apply(get_average): get_average runs once per row, so the
\* attributes of self are read only when X has a row
ApplyGetAverage(self, X) ==
    IF GetItemError(X, "region") # "" THEN Raise(self, X, GetItemError(X, "region"))
    ELSE IF Len(X.rows) > 0 /\ ~({"means_", "global_mean_"} \subseteq self.attrs)
    THEN Raise(self, X, "AttributeError")
    ELSE Return(self, X,
                [kind |-> "Series", columns |-> <<>>,
                 rows |-> [r \in 1..Len(X.rows) |->
                              <<get_average(self, Column(X, "region")[r])>>]])

AverageChargesPerRegionRegressor_predict(self, X) == ApplyGetAverage(self, X)

\* X[name] = values on a DataFrame: the column is overwritten in place when
\* the label exists and appended as the last column when it does not
SetColumn(X, name, values) ==
    IF name \in Range(X.columns)
    THEN [X EXCEPT !.rows = [r \in 1..Len(X.rows) |->
                                [X.rows[r] EXCEPT ![IndexOf(X.columns, name)] = values[r][1]]]]
    ELSE [X EXCEPT !.columns = Append(@, name),
                   !.rows = [r \in 1..Len(X.rows) |-> Append(X.rows[r], values[r][1])]]

\* a transform that assigns the new column on the caller's X
AverageChargesPerRegionExtractor_transform_in_place(self, X) ==
    LET avg == ApplyGetAverage(self, X)
    IN IF avg.exc # "" THEN avg
       ELSE [exc |-> "", self |-> self,
             arg |-> SetColumn(X, "AverageChargeInRegion", avg.out.rows),
             out |-> SetColumn(X, "AverageChargeInRegion", avg.out.rows)]

\* X = X.copy() makes the assignment of the new column go to a copy: the
\* caller's X keeps its cells
AverageChargesPerRegionExtractor_transform(self, X) ==
    LET copy == X
        avg == ApplyGetAverage(self, copy)
    IN IF avg.exc # "" THEN avg
       ELSE Return(self, X, SetColumn(copy, "AverageChargeInRegion", avg.out.rows))

----------------------------------------------------------------------------
(* sklearn's ColumnTransformer with the one transformer the steps give it: *)
(* OrdinalEncoder or OneHotEncoder(drop="first") over declared categories, *)
(* or KBinsDiscretizer(encode="ordinal").                                  *)

\* the position of cell c in the declared categories cats, 0 when it is not one
CategoryIndex(cats, c) == IF IsStr(c) THEN IndexOf(cats, c.s) ELSE 0

\* OrdinalEncoder: the index of the category, counted from 0
OrdinalCells(cats, c) == <<Num(CategoryIndex(cats, c) - 1)>>

\* OneHotEncoder(drop="first"): one indicator per category but the first
OneHotCells(cats, c) ==
    [j \in 1..(Len(cats) - 1) |-> Num(IF CategoryIndex(cats, c) = j + 1 THEN 1 ELSE 0)]

\* KBinsDiscretizer, strategy "uniform": the edges of a column are n_bins + 1
\* equally spaced points from its minimum to its maximum in the fit data; a
\* constant column gets one bin.  An edge record keeps min, max and n_bins.
ColumnMin(X, name) ==
    LET col == Column(X, name)
    IN CHOOSE m \in {col[r].n : r \in 1..Len(col)} : \A r \in 1..Len(col) : m <= col[r].n

ColumnMax(X, name) ==
    LET col == Column(X, name)
    IN CHOOSE m \in {col[r].n : r \in 1..Len(col)} : \A r \in 1..Len(col) : m >= col[r].n

BinEdges(X, name, n_bins) ==
    [min |-> ColumnMin(X, name), max |-> ColumnMax(X, name),
     n_bins |-> IF ColumnMin(X, name) = ColumnMax(X, name) THEN 1 ELSE n_bins]

\* the ordinal code of cell c: the number of inner edges that are <= c
BinCell(edges, c) ==
    Num(Cardinality({i \in 1..(edges.n_bins - 1) :
            edges.min * edges.n_bins + i * (edges.max - edges.min) <= c.n * edges.n_bins}))

\* whether every cell of the transformer's columns can be encoded
Encodable(ct, X) ==
    \A k \in 1..Len(ct.columns) : \A r \in 1..Len(X.rows) :
        LET c == Column(X, ct.columns[k])[r]
        IN IF ct.encoder = "KBinsDiscretizer" THEN IsNum(c) /\ c.d = 1
           ELSE CategoryIndex(ct.categories[k], c) > 0

\* the columns of X the transformer does not name, in the order of X
Remainder(ct, X) ==
    LET RECURSIVE Rest(_)
        Rest(i) == IF i > Len(X.columns) THEN <<>>
                   ELSE IF X.columns[i] \in Range(ct.columns) THEN Rest(i + 1)
                   ELSE <<X.columns[i]>> \o Rest(i + 1)
    IN Rest(1)

ValidStrategy == {"uniform"}

\* ColumnTransformer.fit(X): the fitted transformer, or the exception
ColumnTransformer_fit(ct, X) ==
    IF X.kind # "DataFrame" \/ ~(Range(ct.columns) \subseteq Range(X.columns))
       \/ Len(X.rows) = 0
    THEN [exc |-> "ValueError", ct |-> ct]
    ELSE IF ct.encoder = "KBinsDiscretizer"
            /\ (ct.strategy \notin ValidStrategy \/ \E k \in 1..Len(ct.n_bins) : ct.n_bins[k] < 2)
    THEN [exc |-> "ValueError", ct |-> ct]
    ELSE IF ~Encodable(ct, X) THEN [exc |-> "ValueError", ct |-> ct]
    ELSE [exc |-> "",
          ct |-> [ct EXCEPT
                    !.fitted = TRUE,
                    !.feature_names_in_ = X.columns,
                    !.remainder_columns =
                        IF ct.remainder = "passthrough" THEN Remainder(ct, X) ELSE <<>>,
                    !.bin_edges_ =
                        IF ct.encoder = "KBinsDiscretizer"
                        THEN [k \in 1..Len(ct.columns) |->
                                 BinEdges(X, ct.columns[k], ct.n_bins[k])]
                        ELSE <<>>]]

\* the cells the transformer gives for row r: its encoded columns in the
\* order of ct.columns, then the remainder columns, each selected by label
RECURSIVE EncodedCells(_, _, _, _)
EncodedCells(ct, X, r, k) ==
    IF k > Len(ct.columns) THEN <<>>
    ELSE LET c == Column(X, ct.columns[k])[r]
             cells == CASE ct.encoder = "OrdinalEncoder" -> OrdinalCells(ct.categories[k], c)
                        [] ct.encoder = "OneHotEncoder" -> OneHotCells(ct.categories[k], c)
                        [] OTHER -> <<BinCell(ct.bin_edges_[k], c)>>
         IN cells \o EncodedCells(ct, X, r, k + 1)

ColumnTransformer_transform(ct, X) ==
    IF ~ct.fitted THEN [exc |-> "NotFittedError", out |-> NoData]
    ELSE IF X.kind # "DataFrame"
            \/ ~(Range(ct.columns) \cup Range(ct.remainder_columns) \subseteq Range(X.columns))
            \/ Len(X.rows) = 0
    THEN [exc |-> "ValueError", out |-> NoData]
    ELSE IF ~Encodable(ct, X) THEN [exc |-> "ValueError", out |-> NoData]
    ELSE [exc |-> "",
          out |-> NdArray([r \in 1..Len(X.rows) |->
                     EncodedCells(ct, X, r, 1) \o
                     [k \in 1..Len(ct.remainder_columns) |->
                         Column(X, ct.remainder_columns[k])[r]]])]

----------------------------------------------------------------------------
(* CategoricalEncoder.                                                     *)

\* the column transformer CategoricalEncoder.fit builds, with its encoder's
\* categories and its remainder given
EncoderTransformer(self, categories, remainder) ==
    [NoTransformer EXCEPT
        !.encoder = IF self.one_hot THEN "OneHotEncoder" ELSE "OrdinalEncoder",
        !.categories = categories,
        !.columns = self.categorical_column_names,
        !.remainder = remainder]

\* the values of a column of X, in order of first appearance
SeenValues(X, name) ==
    LET col == Column(X, name)
        RECURSIVE Seen(_)
        Seen(r) == IF r > Len(col) THEN <<>>
                   ELSE IF \E q \in 1..(r - 1) : col[q] = col[r] THEN Seen(r + 1)
                   ELSE <<col[r].s>> \o Seen(r + 1)
    IN Seen(1)

\* a fit whose encoder learns the categories from the data
CategoricalEncoder_fit_learning(self, X, y) ==
    LET names == self.categorical_column_names
        learned == IF X.kind = "DataFrame" /\ Range(names) \subseteq Range(X.columns)
                   THEN [k \in 1..Len(names) |-> SeenValues(X, names[k])]
                   ELSE self.categories
        ct == EncoderTransformer(self, learned, "drop")
        s2 == [self EXCEPT !.attrs = @ \cup {"n_features_in_", "_column_transformer"},
                           !.n_features_in_ = NCols(X),
                           !._column_transformer = ct]
        fitted == ColumnTransformer_fit(ct, X)
    IN IF fitted.exc # "" THEN Raise(s2, X, fitted.exc)
       ELSE Return([s2 EXCEPT !._column_transformer = fitted.ct], X, NoData)

\* a fit whose column transformer passes the other columns through
CategoricalEncoder_fit_passthrough(self, X, y) ==
    LET ct == EncoderTransformer(self, self.categories, "passthrough")
        s2 == [self EXCEPT !.attrs = @ \cup {"n_features_in_", "_column_transformer"},
                           !.n_features_in_ = NCols(X),
                           !._column_transformer = ct]
        fitted == ColumnTransformer_fit(ct, X)
    IN IF fitted.exc # "" THEN Raise(s2, X, fitted.exc)
       ELSE Return([s2 EXCEPT !._column_transformer = fitted.ct], X, NoData)

CategoricalEncoder_fit(self, X, y) ==
    LET s1 == [self EXCEPT !.attrs = @ \cup {"n_features_in_"},
                           !.n_features_in_ = NCols(X)]
        ct == EncoderTransformer(self, self.categories, "drop")
        s2 == [s1 EXCEPT !.attrs = @ \cup {"_column_transformer"},
                         !._column_transformer = ct]
        fitted == ColumnTransformer_fit(ct, X)
    IN IF fitted.exc # "" THEN Raise(s2, X, fitted.exc)
       ELSE Return([s2 EXCEPT !._column_transformer = fitted.ct], X, NoData)

CategoricalEncoder_transform(self, X) ==
    IF "_column_transformer" \notin self.attrs THEN Raise(self, X, "AttributeError")
    ELSE LET t == ColumnTransformer_transform(self._column_transformer, X)
         IN IF t.exc # "" THEN Raise(self, X, t.exc) ELSE Return(self, X, t.out)

----------------------------------------------------------------------------
(* Discretizer.  bins_per_column is a dict: a sequence of <<column, bins>>  *)
(* pairs in insertion order.                                               *)

DictKeys(items) == [i \in 1..Len(items) |-> items[i][1]]
DictValues(items) == [i \in 1..Len(items) |-> items[i][2]]

\* the names of original_column_order_ that are not keys of bins_per_column
NotConfigured(order, items) ==
    LET RECURSIVE Rest(_)
        Rest(i) == IF i > Len(order) THEN <<>>
                   ELSE IF order[i] \in Range(DictKeys(items)) THEN Rest(i + 1)
                   ELSE <<order[i]>> \o Rest(i + 1)
    IN Rest(1)

\* a column order that keeps the order of the fit data
NewColumnOrder_original(columns_, order, items) == order

\* new_column_order_ (lines 136-140)
NewColumnOrder(columns_, order, items) == columns_ \o NotConfigured(order, items)

Discretizer_fit(self, X, y) ==
    LET s1 == [self EXCEPT !.attrs = @ \cup {"n_features_in_"},
                           !.n_features_in_ = NCols(X)]
    IN IF X.kind # "DataFrame" THEN Raise(s1, X, "AttributeError")
       ELSE LET s2 == [s1 EXCEPT !.attrs = @ \cup {"original_column_order_"},
                                 !.original_column_order_ = X.columns]
            IN IF self.bins_per_column = <<>> THEN Raise(s2, X, "ValueError")
               ELSE LET columns_ == DictKeys(self.bins_per_column)
                        n_bins == DictValues(self.bins_per_column)
                        ct == [NoTransformer EXCEPT
                                  !.encoder = "KBinsDiscretizer",
                                  !.n_bins = n_bins,
                                  !.strategy = self.strategy,
                                  !.columns = columns_,
                                  !.remainder = "passthrough"]
                        s3 == [s2 EXCEPT
                                  !.attrs = @ \cup {"columns_", "new_column_order_",
                                                    "_column_transformer"},
                                  !.columns_ = columns_,
                                  !.new_column_order_ =
                                      NewColumnOrder(columns_, X.columns,
                                                     self.bins_per_column),
                                  !._column_transformer = ct]
                        fitted == ColumnTransformer_fit(ct, X)
                    IN IF fitted.exc # "" THEN Raise(s3, X, fitted.exc)
                       ELSE Return([s3 EXCEPT !._column_transformer = fitted.ct], X, NoData)

Discretizer_transform(self, X) ==
    IF "_column_transformer" \notin self.attrs THEN Raise(self, X, "AttributeError")
    ELSE LET cosa == ColumnTransformer_transform(self._column_transformer, X)
         IN IF cosa.exc # "" THEN Raise(self, X, cosa.exc)
            ELSE IF NCols(cosa.out) # Len(self.new_column_order_)
            THEN Raise(self, X, "ValueError")
            ELSE Return(self, X, DataFrame(self.new_column_order_, cosa.out.rows))

----------------------------------------------------------------------------
(* BaggRegressor.  The ensemble's numbers are not modelled: a prediction   *)
(* is the cell Prediction; what is modelled is when fit and predict raise. *)

Prediction == [s |-> "prediction", n |-> 0, d |-> 1]

AllNumeric(X) == \A r \in 1..Len(X.rows) : \A c \in 1..Len(X.rows[r]) : IsNum(X.rows[r][c])

BaggRegressor_fit(self, X, y) ==
    IF Len(X.rows) = 0 \/ ~AllNumeric(X) THEN Raise(self, X, "ValueError")
    ELSE Return([self EXCEPT !.attrs = @ \cup {"_model"},
                             !._model = [n_features_in_ |-> NCols(X)]],
                X, NoData)

BaggRegressor_predict(self, X) ==
    IF "_model" \notin self.attrs THEN Raise(self, X, "AttributeError")
    ELSE IF Len(X.rows) = 0 \/ ~AllNumeric(X) \/ NCols(X) # self._model.n_features_in_
    THEN Raise(self, X, "ValueError")
    ELSE Return(self, X, NdArray([r \in 1..Len(X.rows) |-> <<Prediction>>]))

----------------------------------------------------------------------------
(* Method dispatch: obj.fit(X, y), obj.transform(X), obj.predict(X).       *)

OwnClasses == {"AverageChargesPerRegionExtractor", "AverageChargesPerRegionRegressor",
               "CategoricalEncoder", "Discretizer", "BaggRegressor"}

HasTransform(cls) ==
    cls \in {"AverageChargesPerRegionExtractor", "CategoricalEncoder", "Discretizer"}

HasPredict(cls) == cls \in {"AverageChargesPerRegionRegressor", "BaggRegressor"}

fit(self, X, y) ==
    CASE self.cls = "CategoricalEncoder" -> CategoricalEncoder_fit(self, X, y)
      [] self.cls = "Discretizer" -> Discretizer_fit(self, X, y)
      [] self.cls = "BaggRegressor" -> BaggRegressor_fit(self, X, y)
      [] OTHER -> GroupAverage_fit(self, X, y)

transform(self, X) ==
    CASE self.cls = "CategoricalEncoder" -> CategoricalEncoder_transform(self, X)
      [] self.cls = "Discretizer" -> Discretizer_transform(self, X)
      [] self.cls = "AverageChargesPerRegionExtractor" ->
            AverageChargesPerRegionExtractor_transform(self, X)
      [] OTHER -> Raise(self, X, "AttributeError")

predict(self, X) ==
    CASE self.cls = "AverageChargesPerRegionRegressor" ->
            AverageChargesPerRegionRegressor_predict(self, X)
      [] self.cls = "BaggRegressor" -> BaggRegressor_predict(self, X)
      [] OTHER -> Raise(self, X, "AttributeError")

----------------------------------------------------------------------------
(* The inputs the steps are exercised on.                                  *)

\* every sequence over S of length lo..hi
SeqsOf(S, lo, hi) == UNION {[1..n -> S] : n \in lo..hi}

\* a table whose rows are taken from a set of rows with their target:
\* each element of `rowsWithTarget` is <<cells, target>>
Table(cols, q) == [X |-> DataFrame(cols, [r \in 1..Len(q) |-> q[r][1]]),
                   y |-> [r \in 1..Len(q) |-> q[r][2]]]

Tables(cols, rowsWithTarget, lo, hi) ==
    {Table(cols, q) : q \in SeqsOf(rowsWithTarget, lo, hi)}

Frames(cols, rows, lo, hi) == {DataFrame(cols, q) : q \in SeqsOf(rows, lo, hi)}

\* the regions asked about: A is in some training tables, C is in none
Regions == {"A", "C"}

\* training data of the group-average steps: rows of region and charge
GroupFitInputs ==
    Tables(<<"region">>,
           {<<<<Str("A")>>, 10>>, <<<<Str("A")>>, 50>>, <<<<Str("B")>>, 50>>},
           0, MaxFitRows)
    \cup Tables(<<"age">>, {<<<<Num(30)>>, 10>>}, 1, 1)

RegressorInputs ==
    Frames(<<"region">>, {<<Str(g)>> : g \in Regions}, 0, MaxRows)
    \cup Frames(<<"age">>, {<<Num(30)>>}, 1, 1)

ExtractorInputs ==
    RegressorInputs
    \cup Frames(<<"age", "region">>, {<<Num(30), Str(g)>> : g \in Regions}, 0, MaxRows)
    \cup Frames(<<"AverageChargeInRegion", "region">>,
                {<<Num(0), Str(g)>> : g \in Regions}, 0, MaxRows)

\* data of the categorical encoder: "maybe" and "Z" are outside the declared
\* categories
EncoderFitInputs ==
    Tables(<<"age", "smoker", "region">>,
           {<<<<Num(30), Str("no"), Str("A")>>, 10>>,
            <<<<Num(30), Str("yes"), Str("C")>>, 50>>,
            <<<<Num(30), Str("no"), Str("Z")>>, 10>>,
            <<<<Num(30), Str("maybe"), Str("B")>>, 50>>}, 1, MaxRows)
    \cup Tables(<<"age", "region">>, {<<<<Num(30), Str("A")>>, 10>>}, 1, 1)

EncoderInputs ==
    Frames(<<"region", "age", "smoker">>,
           {<<Str("A"), Num(30), Str("no")>>, <<Str("B"), Num(30), Str("yes")>>,
            <<Str("C"), Num(30), Str("yes")>>, <<Str("Z"), Num(30), Str("no")>>,
            <<Str("B"), Num(30), Str("maybe")>>}, 1, MaxRows)
    \cup Frames(<<"age", "region">>, {<<Num(30), Str("A")>>}, 1, 1)

\* data of the discretizer
DiscretizerFitInputs ==
    Tables(<<"age", "bmi">>,
           {<<<<Num(0), Num(1)>>, 10>>, <<<<Num(5), Num(1)>>, 10>>,
            <<<<Num(9), Num(2)>>, 10>>}, 1, MaxRows)
    \cup Tables(<<"region", "bmi", "age">>,
                {<<<<Str("A"), Num(1), Num(0)>>, 10>>,
                 <<<<Str("A"), Num(1), Num(9)>>, 10>>}, 1, MaxRows)
    \cup Tables(<<"bmi">>, {<<<<Num(1)>>, 10>>}, 1, 1)

DiscretizerInputs ==
    Frames(<<"age", "bmi">>, {<<Num(a), Num(1)>> : a \in {0, 5, 9, 12}}, 1, MaxRows)
    \cup Frames(<<"bmi", "age", "region">>,
                {<<Num(b), Num(5), Str("A")>> : b \in {1, 2}}, 1, MaxRows)
    \cup Frames(<<"bmi">>, {<<Num(1)>>}, 1, 1)

\* data of the bagging wrapper
BaggingFitInputs ==
    Tables(<<"age", "bmi">>, {<<<<Num(a), Num(1)>>, 10>> : a \in {0, 9}}, 0, MaxRows)
    \cup Tables(<<"age", "region">>, {<<<<Num(30), Str("A")>>, 10>>}, 1, 1)

BaggingInputs ==
    Frames(<<"age", "bmi">>, {<<Num(a), Num(1)>> : a \in {0, 9}}, 0, MaxRows)
    \cup Frames(<<"age">>, {<<Num(30)>>}, 1, 1)

FitInputs(cls) ==
    CASE cls = "CategoricalEncoder" -> EncoderFitInputs
      [] cls = "Discretizer" -> DiscretizerFitInputs
      [] cls = "BaggRegressor" -> BaggingFitInputs
      [] OTHER -> GroupFitInputs

CallInputs(cls) ==
    CASE cls = "CategoricalEncoder" -> EncoderInputs
      [] cls = "Discretizer" -> DiscretizerInputs
      [] cls = "BaggRegressor" -> BaggingInputs
      [] cls = "AverageChargesPerRegionExtractor" -> ExtractorInputs
      [] OTHER -> RegressorInputs

\* the keyword arguments the steps are constructed with
NoParams == Params({}, FALSE, <<>>, "")

ParamChoices ==
    {NoParams,
     Params({"one_hot"}, TRUE, <<>>, ""),
     Params({"bins_per_column", "strategy"}, FALSE, <<<<"age", 3>>>>, "uniform"),
     Params({"strategy"}, FALSE, <<>>, "uniform")}

DiscretizerParamChoices ==
    {Params({"bins_per_column", "strategy"}, FALSE, <<<<"age", 3>>>>, "uniform"),
     Params({"bins_per_column", "strategy"}, FALSE, <<<<"bmi", 2>>, <<"age", 3>>>>, "uniform"),
     Params({"bins_per_column", "strategy"}, FALSE, <<<<"age", 3>>>>, "bogus")}

----------------------------------------------------------------------------
(* The state machine of one step instance: it is constructed, fit is       *)
(* called on it until MaxFits calls have returned, and then transform or   *)
(* predict is called.  transform and predict leave the instance as it was, *)
(* so calls made after them start from an instance state that is already   *)
(* explored.                                                               *)

NoCall == [op |-> "none", X |-> NoData, y |-> <<>>, exc |-> "", out |-> NoData,
           arg |-> NoData, self |-> NoObject, pipe |-> NoPipeline, at |-> 0,
           done |-> 0]

NoTrain == [X |-> NoData, y |-> <<>>]

Init ==
    /\ config = <<>>
    /\ model = NoPipeline
    /\ inst = NoObject
    /\ call = NoCall
    /\ train = NoTrain
    /\ earlier = {}

\* inst = cls(**params), where the constructor accepts params
New(cls, params) ==
    /\ inst = NoObject
    /\ Construct(cls, params).exc = ""
    /\ inst' = Construct(cls, params).obj
    /\ call' = [NoCall EXCEPT !.op = "new"]
    /\ UNCHANGED <<config, model, train, earlier>>

IsGroupAverage(cls) ==
    cls \in {"AverageChargesPerRegionExtractor", "AverageChargesPerRegionRegressor"}

\* the region keys of a training table
RegionKeys(X) == IF GetItemError(X, "region") = "" THEN Range(Column(X, "region")) ELSE {}

\* inst.fit(X, y); `done` counts the fit calls that returned.  The instance
\* before the call is recorded for transform and predict only, fit replaces
\* what it learns.
Fit(X, y) ==
    /\ inst.cls \in OwnClasses
    /\ call.op \in {"new", "fit"}
    /\ call.done < MaxFits
    /\ LET r == fit(inst, X, y)
       IN /\ inst' = r.self
          /\ call' = [op |-> "fit", X |-> X, y |-> y, exc |-> r.exc, out |-> r.out,
                      arg |-> r.arg, self |-> NoObject, pipe |-> NoPipeline, at |-> 0,
                      done |-> IF r.exc = "" THEN call.done + 1 ELSE call.done]
          /\ train' = IF r.exc = "" /\ IsGroupAverage(inst.cls)
                      THEN [X |-> X, y |-> y] ELSE train
          /\ earlier' = IF r.exc = "" /\ IsGroupAverage(inst.cls)
                        THEN earlier \cup RegionKeys(train.X) ELSE earlier
    /\ UNCHANGED <<config, model>>

\* inst.transform(X)
Transform(X) ==
    /\ HasTransform(inst.cls)
    /\ call.op \in {"new", "fit"}
    /\ LET r == transform(inst, X)
       IN /\ inst' = r.self
          /\ call' = [op |-> "transform", X |-> X, y |-> <<>>, exc |-> r.exc,
                      out |-> r.out, arg |-> r.arg, self |-> inst, pipe |-> NoPipeline,
                      at |-> 0, done |-> call.done]
    /\ UNCHANGED <<config, model, train, earlier>>

\* inst.predict(X)
Predict(X) ==
    /\ HasPredict(inst.cls)
    /\ call.op \in {"new", "fit"}
    /\ LET r == predict(inst, X)
       IN /\ inst' = r.self
          /\ call' = [op |-> "predict", X |-> X, y |-> <<>>, exc |-> r.exc,
                      out |-> r.out, arg |-> r.arg, self |-> inst, pipe |-> NoPipeline,
                      at |-> 0, done |-> call.done]
    /\ UNCHANGED <<config, model, train, earlier>>

\* every step class of the repository
Next ==
    \/ \E cls \in OwnClasses, params \in ParamChoices \cup DiscretizerParamChoices :
          New(cls, params)
    \/ \E d \in FitInputs(inst.cls) : Fit(d.X, d.y)
    \/ \E X \in CallInputs(inst.cls) : Transform(X)
    \/ \E X \in CallInputs(inst.cls) : Predict(X)

Spec == Init /\ [][Next]_vars

\* the group-average steps
NextGroupAverage ==
    \/ \E cls \in {"AverageChargesPerRegionExtractor",
                   "AverageChargesPerRegionRegressor"} : New(cls, NoParams)
    \/ \E d \in GroupFitInputs : Fit(d.X, d.y)
    \/ \E X \in ExtractorInputs : Transform(X)
    \/ \E X \in RegressorInputs : Predict(X)

SpecGroupAverage == Init /\ [][NextGroupAverage]_vars

\* the categorical encoder, ordinal and one-hot
NextEncoder ==
    \/ \E params \in ParamChoices : New("CategoricalEncoder", params)
    \/ \E d \in EncoderFitInputs : Fit(d.X, d.y)
    \/ \E X \in EncoderInputs : Transform(X)

SpecEncoder == Init /\ [][NextEncoder]_vars

\* the discretizer
NextDiscretizer ==
    \/ \E params \in DiscretizerParamChoices : New("Discretizer", params)
    \/ \E d \in DiscretizerFitInputs : Fit(d.X, d.y)
    \/ \E X \in DiscretizerInputs : Transform(X)

SpecDiscretizer == Init /\ [][NextDiscretizer]_vars

----------------------------------------------------------------------------
(* sklearn's Pipeline.fit on the pipeline build_estimator returns: the     *)
(* steps are validated, then every step but the last is fitted and         *)
(* transforms the data for the next one (fit_transform is                  *)
(* fit(X, y).transform(X)), and the last step is fitted.  The steps are    *)
(* fitted in place, and an exception leaves the loop where it is.          *)

StepNames(steps) == [i \in 1..Len(steps) |-> steps[i].name]

\* the exception of Pipeline._validate_steps, "" when the steps are accepted
ValidateSteps(steps) ==
    IF steps = <<>> THEN "ValueError"
    ELSE IF Cardinality(Range(StepNames(steps))) # Len(steps) THEN "ValueError"
    ELSE IF \E i \in 1..(Len(steps) - 1) : ~HasTransform(steps[i].estimator.cls)
    THEN "TypeError"
    ELSE ""

\* the loop of Pipeline.fit from step i on, Xt being the data step i is given;
\* `at` is the step whose call raised
RECURSIVE Pipeline_fit_loop(_, _, _, _)
Pipeline_fit_loop(steps, i, Xt, y) ==
    LET f == fit(steps[i].estimator, Xt, y)
        fitted == [steps EXCEPT ![i].estimator = f.self]
    IN IF f.exc # "" THEN [exc |-> f.exc, steps |-> fitted, at |-> i]
       ELSE IF i = Len(steps) THEN [exc |-> "", steps |-> fitted, at |-> 0]
       ELSE LET t == transform(f.self, Xt)
            IN IF t.exc # "" THEN [exc |-> t.exc, steps |-> fitted, at |-> i]
               ELSE Pipeline_fit_loop(fitted, i + 1, t.out, y)

\* a pipeline that gives every step the data the pipeline was given
RECURSIVE Pipeline_fit_loop_same_input(_, _, _, _)
Pipeline_fit_loop_same_input(steps, i, X, y) ==
    LET f == fit(steps[i].estimator, X, y)
        fitted == [steps EXCEPT ![i].estimator = f.self]
    IN IF f.exc # "" THEN [exc |-> f.exc, steps |-> fitted, at |-> i]
       ELSE IF i = Len(steps) THEN [exc |-> "", steps |-> fitted, at |-> 0]
       ELSE Pipeline_fit_loop_same_input(fitted, i + 1, X, y)

Pipeline_fit_same_input(steps, X, y) ==
    IF ValidateSteps(steps) # ""
    THEN [exc |-> ValidateSteps(steps), steps |-> steps, at |-> 0]
    ELSE Pipeline_fit_loop_same_input(steps, 1, X, y)

Pipeline_fit(steps, X, y) ==
    IF ValidateSteps(steps) # ""
    THEN [exc |-> ValidateSteps(steps), steps |-> steps, at |-> 0]
    ELSE Pipeline_fit_loop(steps, 1, X, y)

----------------------------------------------------------------------------
(* The state machine of the builder: build_estimator is called on a        *)
(* configuration, and the pipeline it returns is fitted.                   *)

StepNameChoices == DOMAIN get_estimator_mapping \cup {"bogus"}

ConfigEntries ==
    [name : StepNameChoices, params : ParamChoices \cup DiscretizerParamChoices]

Configs == SeqsOf(ConfigEntries, 0, MaxConfigLen)

PipelineFitInputs ==
    Tables(<<"age", "smoker", "region">>,
           {<<<<Num(0), Str("no"), Str("A")>>, 10>>,
            <<<<Num(9), Str("yes"), Str("B")>>, 50>>,
            <<<<Num(5), Str("no"), Str("Z")>>, 10>>}, 1, MaxRows)

\* model = build_estimator(cfg)
Build(cfg) ==
    /\ LET r == build_estimator(cfg)
       IN /\ model' = r.model
          /\ call' = [NoCall EXCEPT !.op = "build", !.exc = r.exc]
    /\ config' = cfg
    /\ UNCHANGED <<inst, train, earlier>>

\* model.fit(X, y), for a pipeline of this repository's own steps
PipelineFit(X, y) ==
    /\ call.op = "build"
    /\ model.built
    /\ \A i \in 1..Len(model.steps) : model.steps[i].estimator.cls \in OwnClasses
    /\ LET r == Pipeline_fit(model.steps, X, y)
       IN /\ model' = [model EXCEPT !.steps = r.steps]
          /\ call' = [op |-> "pipeline.fit", X |-> X, y |-> y, exc |-> r.exc,
                      out |-> NoData, arg |-> X, self |-> NoObject, pipe |-> model,
                      at |-> r.at, done |-> IF r.exc = "" THEN 1 ELSE 0]
    /\ UNCHANGED <<config, inst, train, earlier>>

NextPipeline ==
    \/ call.op = "none" /\ \E cfg \in Configs : Build(cfg)
    \/ call.op = "build" /\ \E d \in PipelineFitInputs : PipelineFit(d.X, d.y)

SpecPipeline == Init /\ [][NextPipeline]_vars

----------------------------------------------------------------------------
(* Properties of the builder, checked under SpecPipeline.                  *)

\* entry e names a registered step
Registered(e) == e.name \in DOMAIN get_estimator_mapping

\* entry e names a registered step and its params match the constructor
ValidEntry(e) ==
    /\ Registered(e)
    /\ RequiredKeywords(get_estimator_mapping[e.name]) \subseteq e.params.keys
    /\ e.params.keys \subseteq AcceptedKeywords(get_estimator_mapping[e.name])

\* the first entry of the configuration that is not valid, 0 when all are
FirstInvalid(cfg) ==
    IF \A i \in 1..Len(cfg) : ValidEntry(cfg[i]) THEN 0
    ELSE CHOOSE i \in 1..Len(cfg) :
             ~ValidEntry(cfg[i]) /\ \A j \in 1..(i - 1) : ValidEntry(cfg[j])

\* C1: for a configuration whose entries all name registered steps with valid
\* params, build_estimator returns a pipeline with one step per entry, in the
\* order of the configuration: step i has the name of entry i and is an
\* instance of the class the registry maps that name to.
C1_StepsFollowConfig ==
    (call.op = "build" /\ \A i \in 1..Len(config) : ValidEntry(config[i])) =>
        /\ call.exc = ""
        /\ model.built
        /\ Len(model.steps) = Len(config)
        /\ \A i \in 1..Len(config) :
              /\ model.steps[i].name = config[i].name
              /\ model.steps[i].estimator.cls = get_estimator_mapping[config[i].name]

C1_Witness ==
    /\ call.op = "build"
    /\ call.exc = ""
    /\ Len(config) = 2
    /\ config[1].name = "discretizer"
    /\ config[2].name = "bagging"
    /\ model.steps[1].estimator.cls = "Discretizer"
    /\ model.steps[2].estimator.cls = "BaggRegressor"

\* the spec's UnknownStepError is the failure of the registry lookup, which
\* Python raises as KeyError; its InvalidParamsError is the constructor's
\* TypeError
UnknownStepError == "KeyError"
InvalidParamsError == "TypeError"

\* C3 as stated: build_estimator fails with UnknownStepError when any entry's
\* name is not a key of the registry, and no pipeline is returned.
C3_AnyUnknownNameIsUnknownStepError ==
    (call.op = "build" /\ \E i \in 1..Len(config) : ~Registered(config[i])) =>
        /\ call.exc = UnknownStepError
        /\ model = NoPipeline

\* C3 as amended: when some entry's name is not a key of the registry,
\* build_estimator raises and returns no pipeline; the entries are processed
\* in order, so the exception is that of the first entry that fails: the
\* lookup's KeyError when that entry's name is unknown, the constructor's
\* TypeError when it is a registered name with params that do not match.
C3_FirstFailingEntryDecides ==
    (call.op = "build" /\ \E i \in 1..Len(config) : ~Registered(config[i])) =>
        /\ call.exc # ""
        /\ model = NoPipeline
        /\ call.exc = IF Registered(config[FirstInvalid(config)])
                      THEN InvalidParamsError ELSE UnknownStepError

C3_Witness ==
    /\ call.op = "build"
    /\ Len(config) = 2
    /\ ValidEntry(config[1])
    /\ ~Registered(config[2])
    /\ call.exc = "KeyError"
    /\ model = NoPipeline

\* a step instance holds fitted state
IsFitted(obj) ==
    CASE obj.cls \in {"CategoricalEncoder", "Discretizer"} ->
            "_column_transformer" \in obj.attrs /\ obj._column_transformer.fitted
      [] obj.cls = "BaggRegressor" -> "_model" \in obj.attrs
      [] OTHER -> {"means_", "global_mean_"} \subseteq obj.attrs

\* the data step j of the fitted pipeline is to be given: the pipeline's input
\* sent through the transform of the steps before j, in order
RECURSIVE StepInput(_)
StepInput(j) ==
    IF j = 1 THEN call.X
    ELSE transform(model.steps[j - 1].estimator, StepInput(j - 1)).out

\* the state step j has when fit is called on it with the data it is to be given
FittedOnInput(j) == fit(call.pipe.steps[j].estimator, StepInput(j), call.y).self

\* C9 as stated: a pipeline is never partially fitted: when Pipeline.fit
\* fails, it is not the case that some step holds fitted state while another
\* holds none.
C9_NeverPartiallyFitted ==
    (call.op = "pipeline.fit" /\ call.exc # "") =>
        ~(/\ \E j \in 1..Len(model.steps) : IsFitted(model.steps[j].estimator)
          /\ \E k \in 1..Len(model.steps) : ~IsFitted(model.steps[k].estimator))

\* C9 as amended: Pipeline.fit fits the steps in place, in configuration
\* order, step j on the output of transforming the input through the steps
\* before it.  When fit succeeds every step is fitted in that way.  When the
\* call of step i raises, the steps before i keep the state this call fitted
\* (the pipeline is left partially fitted) and the steps after i are as they
\* were; when the steps are rejected before the loop, all are as they were.
C9_FittedInOrderAndInPlace ==
    (call.op = "pipeline.fit") =>
        /\ Len(model.steps) = Len(call.pipe.steps)
        /\ (call.exc = "" =>
               \A j \in 1..Len(model.steps) :
                  /\ IsFitted(model.steps[j].estimator)
                  /\ model.steps[j].estimator = FittedOnInput(j))
        /\ (call.exc # "" /\ call.at > 0 =>
               /\ \A j \in 1..(call.at - 1) :
                     /\ IsFitted(model.steps[j].estimator)
                     /\ model.steps[j].estimator = FittedOnInput(j)
               /\ ~IsFitted(model.steps[call.at].estimator)
               /\ \A j \in (call.at + 1)..Len(model.steps) :
                     model.steps[j] = call.pipe.steps[j])
        /\ (call.exc # "" /\ call.at = 0 => model.steps = call.pipe.steps)

\* the extractor is fitted, the bagging wrapper after it raised on the region
\* strings: the pipeline is partially fitted
C9_Witness ==
    /\ call.op = "pipeline.fit"
    /\ call.exc = "ValueError"
    /\ call.at = 2
    /\ Len(model.steps) = 2
    /\ model.steps[1].estimator.cls = "AverageChargesPerRegionExtractor"
    /\ IsFitted(model.steps[1].estimator)
    /\ model.steps[2].estimator.cls = "BaggRegressor"
    /\ ~IsFitted(model.steps[2].estimator)

----------------------------------------------------------------------------
(* Properties of the step instances, checked under Spec.                   *)

\* the training rows of the last fit whose region is k
TrainRows(k) == {i \in 1..Len(train.y) : Column(train.X, "region")[i] = k}

RECURSIVE SumOver(_)
SumOver(S) == IF S = {} THEN 0
              ELSE LET i == CHOOSE i \in S : TRUE IN train.y[i] + SumOver(S \ {i})

\* cell v is the mean of the targets of the training rows S
IsMeanOf(v, S) == IsNum(v) /\ v.n * Cardinality(S) = SumOver(S) * v.d

\* what the last predict gave for row r, or the last transform appended to it
Predicted(r) ==
    IF call.op = "predict" THEN call.out.rows[r][1]
    ELSE call.out.rows[r][IndexOf(call.out.columns, "AverageChargeInRegion")]

GroupAverageCall ==
    /\ IsGroupAverage(inst.cls)
    /\ call.op \in {"predict", "transform"}
    /\ call.done > 0
    /\ GetItemError(call.X, "region") = ""

NotFittedError == {"NotFittedError", "AttributeError"}

\* C4 as stated: transform or predict on an instance on which fit has never
\* completed fails with NotFittedError, returns no result and leaves the
\* instance unfitted.
C4_UseBeforeFitRaises ==
    (call.op \in {"transform", "predict"} /\ call.done = 0) =>
        /\ call.exc \in NotFittedError
        /\ call.out = NoData
        /\ ~IsFitted(inst)

\* the declared categorical columns and their declared values
DeclaredColumns == get_binary_column_names \o get_categorical_column_names
Declared(name) == get_categorical_variables_values_mapping[name]

HasDeclaredColumns(X) ==
    X.kind = "DataFrame" /\ Range(DeclaredColumns) \subseteq Range(X.columns)

\* some categorical or binary cell of X is outside the declared values
OutsideDomain(X) ==
    \E k \in 1..Len(DeclaredColumns) : \E r \in 1..Len(X.rows) :
        LET c == Column(X, DeclaredColumns[k])[r]
        IN ~(IsStr(c) /\ c.s \in Range(Declared(DeclaredColumns[k])))

\* the spec's UnknownCategoryError is the ValueError of sklearn's encoders
UnknownCategoryError == "ValueError"

\* C5: a fitted Categorical Encoder raises UnknownCategoryError when transform
\* is given a categorical or binary value outside the declared domain, in
\* ordinal and in one-hot mode, whatever the fit data held; fit raises it
\* when the fit data holds such a value.
C5_UndeclaredValueRaises ==
    (inst.cls = "CategoricalEncoder" /\ HasDeclaredColumns(call.X)
     /\ OutsideDomain(call.X)) =>
        /\ (call.op = "transform" /\ IsFitted(call.self)) =>
               call.exc = UnknownCategoryError /\ call.out = NoData
        /\ call.op = "fit" => call.exc = UnknownCategoryError /\ ~IsFitted(inst)

\* a one-hot encoder fitted on rows with region A only is given region Z
C5_Witness ==
    /\ inst.cls = "CategoricalEncoder"
    /\ inst.one_hot
    /\ call.op = "transform"
    /\ IsFitted(call.self)
    /\ call.done = 1
    /\ \E r \in 1..Len(call.X.rows) : Column(call.X, "region")[r] = Str("Z")
    /\ call.exc = "ValueError"

\* the number of output columns before those of declared column k
RECURSIVE OneHotOffset(_)
OneHotOffset(k) ==
    IF k = 1 THEN 0
    ELSE OneHotOffset(k - 1) + Len(Declared(DeclaredColumns[k - 1])) - 1

\* C7: transform of the Categorical Encoder returns the encoded categorical
\* and binary columns only.  One-hot: a column with k declared categories
\* gives k - 1 indicator columns, the first declared category being the one
\* dropped.  Ordinal: each column gives one integer column holding the index
\* of the row's value in the declared order.
C7_EncodedColumnsOnly ==
    (inst.cls = "CategoricalEncoder" /\ call.op = "transform" /\ call.exc = "") =>
        /\ call.out.kind = "ndarray"
        /\ Len(call.out.rows) = Len(call.X.rows)
        /\ \A r \in 1..Len(call.X.rows) :
              LET row == call.out.rows[r]
                  n == Len(DeclaredColumns)
              IN IF inst.one_hot
                 THEN /\ Len(row) = OneHotOffset(n + 1)
                      /\ \A k \in 1..n :
                            LET cats == Declared(DeclaredColumns[k])
                                c == Column(call.X, DeclaredColumns[k])[r]
                            IN \A j \in 2..Len(cats) :
                                  row[OneHotOffset(k) + j - 1] =
                                      Num(IF c = Str(cats[j]) THEN 1 ELSE 0)
                 ELSE /\ Len(row) = n
                      /\ \A k \in 1..n :
                            LET cats == Declared(DeclaredColumns[k])
                                c == Column(call.X, DeclaredColumns[k])[r]
                            IN \E i \in 1..Len(cats) :
                                  c = Str(cats[i]) /\ row[k] = Num(i - 1)

\* smoker "yes" and region "C" of three-column input become 1, 0, 1
C7_Witness ==
    /\ inst.cls = "CategoricalEncoder"
    /\ inst.one_hot
    /\ call.op = "transform"
    /\ call.exc = ""
    /\ Len(call.X.columns) = 3
    /\ call.X.rows = <<<<Str("C"), Num(30), Str("yes")>>>>
    /\ call.out.rows = <<<<Num(1), Num(0), Num(1)>>>>

\* the keys of bins_per_column, and whether a column is one of them
Configured == DictKeys(inst.bins_per_column)
IsConfigured(name) == name \in Range(Configured)
IsNotConfigured(name) == ~IsConfigured(name)

\* the labels the claim gives the output: the configured columns in configured
\* order, then the other fit-time columns in their fit-time order
ExpectedLabels == Configured \o SelectSeq(inst.original_column_order_, IsNotConfigured)

\* C6: every transform of a fitted Discretizer returns a dataset labelled with
\* the configured columns in configured order followed by the remaining
\* fit-time columns in their original relative order; the labels depend on the
\* fitted instance only, which transform leaves as it was; and the column
\* labelled `name` holds the cells of the input's column `name`: an ordinal
\* below the configured number of bins that does not decrease with the input
\* when name is configured, the input's cells when it is not.
C6_LabelsFollowConfiguration ==
    (inst.cls = "Discretizer" /\ call.op = "transform" /\ call.exc = "") =>
        /\ call.out.kind = "DataFrame"
        /\ call.out.columns = ExpectedLabels
        /\ call.out.columns = inst.new_column_order_
        /\ inst = call.self
        /\ Len(call.out.rows) = Len(call.X.rows)
        /\ \A r \in 1..Len(call.X.rows) :
              /\ Len(call.out.rows[r]) = Len(ExpectedLabels)
              /\ \A c \in 1..Len(ExpectedLabels) :
                    LET name == ExpectedLabels[c]
                        in == Column(call.X, name)
                        cell == call.out.rows[r][c]
                    IN IF IsConfigured(name)
                       THEN /\ cell.d = 1
                            /\ cell.n \in 0..(DictValues(inst.bins_per_column)
                                                [IndexOf(Configured, name)] - 1)
                            /\ \A q \in 1..Len(call.X.rows) :
                                  in[q].n <= in[r].n =>
                                      call.out.rows[q][c].n <= cell.n
                       ELSE cell = in[r]

\* fitted on columns [age, bmi] with bins for bmi then age, the output is
\* labelled [bmi, age]; ages 0 and 9 fall in bins 0 and 2 of 3
C6_Witness ==
    /\ inst.cls = "Discretizer"
    /\ call.op = "transform"
    /\ call.exc = ""
    /\ Configured = <<"bmi", "age">>
    /\ inst.original_column_order_ = <<"age", "bmi">>
    /\ call.X.columns = <<"age", "bmi">>
    /\ call.X.rows = <<<<Num(0), Num(1)>>, <<Num(9), Num(1)>>>>
    /\ call.out.columns = <<"bmi", "age">>
    /\ call.out.rows[1][2] = Num(0)
    /\ call.out.rows[2][2] = Num(2)

ExtractorTransformReturned ==
    /\ inst.cls = "AverageChargesPerRegionExtractor"
    /\ call.op = "transform"
    /\ call.exc = ""

\* the cells of X are in the output under the same labels at the same places,
\* but for the column labelled `except`
KeepsColumns(X, out, except) ==
    /\ Len(out.rows) = Len(X.rows)
    /\ \A c \in 1..Len(X.columns) :
          /\ out.columns[c] = X.columns[c]
          /\ X.columns[c] # except =>
                \A r \in 1..Len(X.rows) : out.rows[r][c] = X.rows[r][c]

\* C8 as stated: for every input X, transform of the extractor returns a
\* dataset with exactly one column more than X, every column of X in it with
\* unchanged values and position, the caller's X and the fitted means left
\* as they were.
C8_AlwaysOneColumnMore ==
    ExtractorTransformReturned =>
        /\ Len(call.out.columns) = Len(call.X.columns) + 1
        /\ KeepsColumns(call.X, call.out, "")
        /\ call.arg = call.X
        /\ inst = call.self

\* C8 as amended: transform of the extractor returns a new dataset and leaves
\* the caller's X and the fitted means as they were.  When X has no column
\* labelled AverageChargeInRegion the result has exactly one column more, the
\* average column, after the columns of X, which keep values and position.
\* When X has a column with that label the result has the columns of X and
\* no more: that column's cells are replaced by the averages and the other
\* columns keep values and position.
C8_WidensUnlessLabelTaken ==
    ExtractorTransformReturned =>
        /\ call.arg = call.X
        /\ inst = call.self
        /\ call.out.kind = "DataFrame"
        /\ IF "AverageChargeInRegion" \notin Range(call.X.columns)
           THEN /\ call.out.columns = Append(call.X.columns, "AverageChargeInRegion")
                /\ KeepsColumns(call.X, call.out, "")
                /\ \A r \in 1..Len(call.X.rows) :
                      Len(call.out.rows[r]) = Len(call.X.rows[r]) + 1
           ELSE /\ call.out.columns = call.X.columns
                /\ KeepsColumns(call.X, call.out, "AverageChargeInRegion")
                /\ \A r \in 1..Len(call.X.rows) :
                      Len(call.out.rows[r]) = Len(call.X.rows[r])

\* a fitted extractor widens [age, region] to [age, region, average]
C8_Witness ==
    /\ ExtractorTransformReturned
    /\ call.done > 0
    /\ call.X.columns = <<"age", "region">>
    /\ Len(call.X.rows) = 2
    /\ call.out.columns = <<"age", "region", "AverageChargeInRegion">>

\* C10: re-fitting overwrites: after any sequence of fit calls, predict and
\* transform of a group-average step depend on the training data of the most
\* recent fit only.  The keys of the fitted means are those of that fit and
\* each mean and the global mean are those of that fit; a key of an earlier
\* fit that is absent from the latest one gets the latest global mean.
C10_RefitOverwrites ==
    (IsGroupAverage(inst.cls) /\ call.done > 0) =>
        /\ DOMAIN inst.means_ = RegionKeys(train.X)
        /\ inst.global_mean_ = Mean(train.y)
        /\ (GroupAverageCall /\ call.exc = "") =>
               \A r \in 1..Len(call.X.rows) :
                  LET k == Column(call.X, "region")[r]
                  IN (k \in earlier /\ k \notin RegionKeys(train.X)) =>
                         Predicted(r) = Mean(train.y)

\* fitted on a table with region A, then on [B] alone with charge 50: A is
\* forgotten and gets the global mean of the second fit
C10_Witness ==
    /\ inst.cls = "AverageChargesPerRegionRegressor"
    /\ call.op = "predict"
    /\ call.done = 2
    /\ Str("A") \in earlier
    /\ train.X.rows = <<<<Str("B")>>>>
    /\ train.y = <<50>>
    /\ call.X.rows = <<<<Str("A")>>>>
    /\ call.out.rows = <<<<Num(50)>>>>

====
